---- MODULE Spec2Model ----
(***************************************************************************)
(* Round-robin process scheduler of project1/uspsv3.c: the launch loop,    *)
(* the dispatch loop, the two signal handlers and the launched children,   *)
(* over the array-based FIFO queue of adts/arrayqueue.c.                   *)
(*                                                                         *)
(* The scheduler (main) is one thread of control; its signal handlers run  *)
(* between any two of its steps once their signal is pending.  Children    *)
(* and the interval timer act by themselves.                               *)
(*                                                                         *)
(* Time is counted in quanta.  Tick is the passing of one whole timer      *)
(* period, during which a child that is executing its program makes one    *)
(* quantum of progress; a whole period passes only while main is asleep in *)
(* sleep(1) (main's straight-line code takes less than a quantum).  The    *)
(* period that was running when a dispatch ended early, by an exit, can    *)
(* still run out afterwards: StaleExpiry.  A signal, once raised, is       *)
(* delivered after any number of steps of main and of the children, but    *)
(* before another whole period has passed.                                 *)
(***************************************************************************)
EXTENDS Integers, Sequences, FiniteSets, TLC

\* ------------------------------------------------------------------ bounds
MaxProcs == 3          \* commands read by the launch loop
MaxNeed == 3           \* quanta of CPU a launched program needs, at most
MaxWork == 6           \* quanta of CPU all launched programs need together, at most
QueueCap == 2          \* capacity the queue exercised alone is created with
MaxOps == 5            \* enqueues made on the queue exercised alone, at most
SetCap == 2            \* capacity the hash set exercised alone is created with
MaxMember == 4         \* the members offered to the hash set are 1..MaxMember

\* --------------------------------------------------------- program constants
MAX_PROCESSES == 128   \* initial capacity handed to ArrayQueue
NULL == 0
EXIT_FAILURE == 1
MAX_SET_CAPACITY == 134217728

Procs == 1..MaxProcs

\* ------------------------------------------------------------ configuration
\* A string is a tuple of characters.
Digits == {"0", "1", "2", "3", "4", "5", "6", "7", "8", "9"}
DigitVal(c) ==
    CASE c = "0" -> 0 [] c = "1" -> 1 [] c = "2" -> 2 [] c = "3" -> 3
      [] c = "4" -> 4 [] c = "5" -> 5 [] c = "6" -> 6 [] c = "7" -> 7
      [] c = "8" -> 8 [] c = "9" -> 9

\* p1atoi: the value of the decimal digits a string starts with (0 when it
\* starts with none); no sign is read.
RECURSIVE p1atoi_from(_, _, _)
p1atoi_from(s, i, ans) ==
    IF i <= Len(s) /\ s[i] \in Digits
    THEN p1atoi_from(s, i + 1, 10 * ans + DigitVal(s[i]))
    ELSE ans
p1atoi(s) == p1atoi_from(s, 1, 0)

\* The null char pointer: no string at all.
NoString == <<"(null)">>

\* Values the two sources of the quantum are given in the runs checked.
S0 == <<"0">>
S100 == <<"1", "0", "0">>
S200 == <<"2", "0", "0">>
S500 == <<"5", "0", "0">>
S1000 == <<"1", "0", "0", "0">>
SMinus5 == <<"-", "5">>
OptArgs == {NoString, S0, S200, S500, S1000, SMinus5}
EnvVals == {NoString, S0, S200, S500, S1000, SMinus5}

\* The -q arguments of the scheduling runs: zero, a sub-second value, and a
\* value of a second or more.  Their quanta are the ones the configuration
\* check (QUANT_SECONDS < 0 is refused) lets through.
RunArgs == {S0, S500, S1000}
AcceptedQuanta == {p1atoi(a) : a \in RunArgs}

VARIABLES
    pc,            \* position of main
    optarg,        \* the argument of -q, or NoString when the option is not given
    QUANT_ENV,     \* getenv("USPS_QUANTUM_MSEC"), or NoString when it is not set
    QUANT_SECONDS, \* the resolved quantum (milliseconds)
    queue,         \* QData of the ready queue
    child,         \* main's local pointer to the dequeued ChildProcess
    wpid,          \* main's local result of waitpid(child->pid, WNOHANG); 0 outside its scope
    pcb,           \* the ChildProcess records, by process
    childRunning,  \* volatile flag
    timeLeft,      \* volatile flag
    timeRuning,    \* global accumulated by alarm_handler
    timerArmed,    \* ITIMER_REAL is running (periodic)
    stalePossible, \* the running period may be about to end (a wait ended early)
    sigalrm,       \* SIGALRM pending for main
    sigchld,       \* SIGCHLD pending for main
    proc,          \* the operating system's view of each child
    launched,      \* number of children forked so far
    dispatchLog,   \* history: processes in the order they were dequeued
    reapCount,     \* history: times each child's status was collected
    freeCount,     \* history: times each PCB was freed
    exitedAt,      \* history: number of the dispatch during which a child exited (0 once its PCB is freed)
    stopSentDead,  \* history: SIGSTOP was sent to a child that had exited
    lostRefs,      \* history: a freed PCB was dereferenced or enqueued
    readyLog,      \* history: the ReadyQueue's contents at each dispatch
    demand,        \* history: quanta all launched programs needed together
    work,          \* history: quanta every program needed when launched (-1: they differ)
    ticks,         \* history: whole quanta the dispatched process has executed in this dispatch
    fifo,          \* history: every element enqueued on the queue exercised alone
    taken,         \* history: every element that has left it (dequeued or cleared)
    strayReap,     \* history: a handler collected a child other than the dispatched one
    fd,            \* main's descriptor of its input (0: standard input)
    status,        \* what main returned: <<>> while it runs, then <<its exit status>>
    execFails,     \* the commands whose execvp fails (their program does not start)
    expired,       \* history: a period of the timer has run out during this dispatch's wait
    ret,           \* the last call made on the container exercised alone, with what it returned
    version,       \* the launcher exercised alone: 1 for uspsv1, 2 for uspsv2 (0: none)
    kid,           \* the launcher's children, by pid
    pids,          \* the launcher's array of recorded pids (process_count is its length)
    idx,           \* the launcher's loop index i
    hs             \* SData of the hash set exercised alone

vars == <<pc, optarg, QUANT_ENV, QUANT_SECONDS, queue, child, wpid, pcb, childRunning, timeLeft,
          timeRuning, timerArmed, stalePossible, sigalrm, sigchld, proc, launched,
          dispatchLog, reapCount, freeCount, exitedAt, stopSentDead, lostRefs,
          readyLog, work, demand, strayReap, fifo, taken, ticks,
          fd, status, execFails, expired, ret, version, kid, pids, idx, hs>>

\* -------------------------------------------------------------- ArrayQueue
ArrayQueue(capacity) ==
    [count |-> 0, size |-> capacity, in |-> 0, out |-> 0,
     buffer |-> [i \in 0..(capacity - 1) |-> NULL]]

\* A reallocation that copies from the start of the old buffer, not from out.
q_grow_from0(qd) ==
    [count |-> qd.count, size |-> 2 * qd.size, in |-> qd.count, out |-> 0,
     buffer |-> [j \in 0..(2 * qd.size - 1) |->
                   IF j < qd.count THEN qd.buffer[j] ELSE NULL]]

\* The reallocation branch of q_enqueue: copy count elements starting at out.
q_grow(qd) ==
    [count |-> qd.count, size |-> 2 * qd.size, in |-> qd.count, out |-> 0,
     buffer |-> [j \in 0..(2 * qd.size - 1) |->
                   IF j < qd.count THEN qd.buffer[(qd.out + j) % qd.size]
                   ELSE NULL]]

\* A queue that inserts at its front instead of its back (a stack).
q_enqueue_front(qd, element) ==
    LET d == IF qd.count < qd.size THEN qd ELSE q_grow(qd)
        o == (d.out + d.size - 1) % d.size
    IN [d EXCEPT !.buffer[o] = element, !.out = o, !.count = d.count + 1]

q_enqueue(qd, element) ==
    LET d == IF qd.count < qd.size THEN qd ELSE q_grow(qd)
    IN [d EXCEPT !.buffer[d.in] = element,
                 !.in = (d.in + 1) % d.size,
                 !.count = d.count + 1]

\* A front that reads the slot filled last instead of the slot at out.
q_front_last(qd) == qd.buffer[(qd.in + qd.size - 1) % qd.size]

q_front(qd) == qd.buffer[qd.out]

\* A dequeue that forgets to advance the out index.
q_dequeue_stuck(qd) ==
    IF qd.count > 0 THEN [qd EXCEPT !.count = qd.count - 1] ELSE qd

q_dequeue(qd) ==
    IF qd.count > 0
    THEN [qd EXCEPT !.out = (qd.out + 1) % qd.size, !.count = qd.count - 1]
    ELSE qd

q_isEmpty(qd) == qd.count = 0

\* A test that finds a front element in every queue.
HasFront_always(qd) == TRUE

\* bool status = (qd->count > 0L), the result of q_front and of q_dequeue.
HasFront(qd) == qd.count > 0

\* A clear that resets count and out but leaves in where it was.
q_clear_keeps_in(qd) == [qd EXCEPT !.count = 0, !.out = 0]

\* q_clear: the elements are purged (freed, their slots left as they are)
\* and count, in and out are reset.
q_clear(qd) == [qd EXCEPT !.count = 0, !.in = 0, !.out = 0]

\* The queue's contents, front first (what q_toArray returns).
q_toArray(qd) ==
    [j \in 1..qd.count |-> qd.buffer[(qd.out + j - 1) % qd.size]]

Range(f) == {f[x] : x \in DOMAIN f}

\* ----------------------------------------------------------------- HashSet
\* The load factor the set exercised alone is created with, as a fraction.
LoadFactor == <<3, 4>>

\* HashSet(freeValue, cmpFxn, capacity, loadFactor, hashFxn), for a positive
\* capacity.  A bucket is the sequence of the values of its chain, head
\* first.  load is kept as the number of increments of 1/capacity it holds.
HashSet(capacity) ==
    [size |-> 0, capacity |-> capacity, load |-> 0,
     table |-> [i \in 0..(capacity - 1) |-> <<>>]]

\* The hash function and the comparison the set is created with: members
\* are numbers, hashed by their remainder and compared by their value.
hashFxn(m, N) == m % N
cmpFxn(a, b) == IF a = b THEN 0 ELSE 1

\* if(sd->load > sd->loadFactor)
Overloaded(sd) == sd.load * LoadFactor[2] > LoadFactor[1] * sd.capacity

\* The values of all chains, in the order resize visits them.
RECURSIVE Chains(_, _)
Chains(sd, i) ==
    IF i >= sd.capacity THEN <<>> ELSE sd.table[i] \o Chains(sd, i + 1)

\* Each visited node is linked in at the head of its new bucket.
RECURSIVE Relink(_, _, _)
Relink(vals, N, array) ==
    IF vals = <<>> THEN array
    ELSE Relink(Tail(vals), N,
                [array EXCEPT ![hashFxn(Head(vals), N)] = <<Head(vals)>> \o @])

\* resize: twice the capacity (MAX_SET_CAPACITY at most), every node hashed
\* again; load is halved and the increment becomes 1/N, so the number of
\* increments load holds stays the same.
resize(sd) ==
    LET N == IF 2 * sd.capacity > MAX_SET_CAPACITY THEN MAX_SET_CAPACITY
             ELSE 2 * sd.capacity
    IN IF N = sd.capacity THEN sd
       ELSE [sd EXCEPT !.capacity = N,
                       !.table = Relink(Chains(sd, 0), N, [j \in 0..(N - 1) |-> <<>>])]

\* insertEntry, for a malloc that succeeds: a new node at the head of bucket i.
insertEntry(sd, value, i) ==
    [sd EXCEPT !.table[i] = <<value>> \o @, !.size = @ + 1, !.load = @ + 1]

\* s_add: the set afterwards, and the status returned.  The member is
\* inserted only if (c = sd->table[i]) == NULL.
Resized(sd) == IF Overloaded(sd) THEN resize(sd) ELSE sd

s_add(sd, member) ==
    LET d == Resized(sd)
        i == hashFxn(member, d.capacity)
    IN IF d.table[i] = <<>> THEN insertEntry(d, member, i) ELSE d

s_add_status(sd, member) ==
    Resized(sd).table[hashFxn(member, Resized(sd).capacity)] = <<>>

\* s_contains: the chain of the member's bucket is searched with cmpFxn.
s_contains(sd, member) ==
    LET chain == sd.table[hashFxn(member, sd.capacity)]
    IN \E k \in 1..Len(chain) : cmpFxn(member, chain[k]) = 0

\* s_remove: entry is the head of the member's bucket, whatever its value,
\* and status is (entry != NULL).  The loop for(c = NULL, n = sd->table[i];
\* n != entry; ...) starts with n equal to entry, so its body, which holds
\* the unlinking and the size--, is never executed: the set is as it was.
s_remove(sd, member) == sd

s_remove_status(sd, member) == sd.table[hashFxn(member, sd.capacity)] # <<>>

s_size(sd) == sd.size

\* s_clear: purge empties every bucket; size and load are reset.
s_clear(sd) ==
    [sd EXCEPT !.table = [i \in 0..(sd.capacity - 1) |-> <<>>],
               !.size = 0, !.load = 0]

\* No call made yet.
NoCall == [op |-> "none", arg |-> NULL, status |-> FALSE]

\* --------------------------------------------------------------- processes
\* A child of the launcher.  st: unborn | forked (before its first own step)
\* | spin (in while(not_ready)) | exec (runs the target program) | done
\* (exited from it) | killed (ended by a signal's default action).
NoKid == [st |-> "unborn", handler |-> FALSE, not_ready |-> TRUE, usr1 |-> FALSE,
          stopped |-> FALSE, reaped |-> FALSE]

\* st: unborn | run | stop | zombie | reaped.  raised: the child is past its
\* raise(SIGSTOP), so what it runs is the target program.  need: quanta of
\* CPU the target program still needs; it exits within the last of them.
NoProc == [st |-> "unborn", raised |-> FALSE, need |-> 0]
NoPCB == [pid |-> 0, totalCPUTime |-> 0, running |-> FALSE, finished |-> FALSE,
          mem |-> "none"]

Exited(p) == proc[p].st \in {"zombie", "reaped"}
Executing(p) == proc[p].st = "run" /\ proc[p].raised

\* kill(pid, SIGCONT): a stopped process continues; otherwise nothing changes.
SigCont(ps, p) ==
    IF ps[p].st = "stop" THEN [ps EXCEPT ![p].st = "run"] ELSE ps

\* A stop signal that ends its target, as a terminating signal would.
SigStop_kills(ps, p) ==
    IF ps[p].st \in {"run", "stop"} THEN [ps EXCEPT ![p].st = "zombie"] ELSE ps

\* A stop signal that has no effect on its target.
SigStop_ignored(ps, p) == ps

\* kill(pid, SIGSTOP): a running process stops; otherwise nothing changes.
SigStop(ps, p) ==
    IF ps[p].st = "run" THEN [ps EXCEPT ![p].st = "stop"] ELSE ps

\* What kill(pid, sig) returns, which main does not look at: 0 for a process
\* that exists (a zombie included), -1 (ESRCH) once it has been reaped.
KillResult(ps, p) == IF ps[p].st \in {"run", "stop", "zombie"} THEN 0 ELSE -1

\* setitimer(ITIMER_REAL, &timer, NULL) with the timer value main computed:
\* tv_sec = q / 1000, tv_usec = q * 1000.  A tv_usec of a million or more is
\* refused (EINVAL) and leaves the timer as it was; a zero value disarms it.
TimerSec(q) == q \div 1000
TimerUsec(q) == q * 1000
TimerValid(q) == TimerUsec(q) < 1000000
SetITimer(armed, q) ==
    IF ~TimerValid(q) THEN armed
    ELSE (TimerSec(q) > 0 \/ TimerUsec(q) > 0)

\* -------------------------------------------------------------------- Init
InitOther ==
    /\ fifo = <<>>
    /\ taken = <<>>
    /\ child = NULL
    /\ wpid = 0
    /\ pcb = [p \in Procs |-> NoPCB]
    /\ childRunning = FALSE
    /\ timeLeft = TRUE
    /\ timeRuning = 0
    /\ timerArmed = FALSE
    /\ stalePossible = FALSE
    /\ sigalrm = FALSE
    /\ sigchld = FALSE
    /\ proc = [p \in Procs |-> NoProc]
    /\ launched = 0
    /\ dispatchLog = <<>>
    /\ reapCount = [p \in Procs |-> 0]
    /\ freeCount = [p \in Procs |-> 0]
    /\ exitedAt = [p \in Procs |-> 0]
    /\ stopSentDead = FALSE
    /\ lostRefs = FALSE
    /\ readyLog = <<>>
    /\ work = 0
    /\ demand = 0
    /\ ticks = 0
    /\ strayReap = FALSE
    /\ ret = NoCall
    /\ fd = 0
    /\ status = <<>>
    /\ expired = FALSE

\* No launcher is exercised.
InitLauncher ==
    /\ version = 0
    /\ kid = [p \in Procs |-> NoKid]
    /\ pids = <<>>
    /\ idx = 0

InitSet == hs = HashSet(SetCap)

InitRest ==
    /\ queue = ArrayQueue(MAX_PROCESSES)
    /\ InitOther
    /\ InitLauncher
    /\ InitSet

\* A scheduling run: the quantum is given with -q.
Init ==
    /\ pc = "L49"
    /\ QUANT_SECONDS = -1
    /\ optarg \in RunArgs
    /\ QUANT_ENV = NoString
    /\ execFails = {}
    /\ InitRest

\* The scenario run: the quantum is 100.
Init100 ==
    /\ pc = "L49"
    /\ QUANT_SECONDS = -1
    /\ optarg = S100
    /\ QUANT_ENV = NoString
    /\ execFails = {}
    /\ InitRest

\* Any configuration: each source is absent or holds one of the values.
ConfInit ==
    /\ pc = "L49"
    /\ QUANT_SECONDS = -1
    /\ optarg \in OptArgs
    /\ QUANT_ENV \in EnvVals
    /\ execFails = {}
    /\ InitRest

confVars == <<optarg, QUANT_ENV, QUANT_SECONDS>>
queueVars == <<fifo, taken, ret>>
launchVars == <<version, kid, pids, idx>>
inputVars == <<fd, execFails>>
mainVars == <<queue, child, wpid, pcb>>
timerVars == <<timerArmed, stalePossible>>
flagVars == <<childRunning, timeLeft, timeRuning>>
histVars == <<dispatchLog, reapCount, freeCount, exitedAt, stopSentDead,
              lostRefs, readyLog, work, demand, strayReap, ticks, expired>>
schedVars == <<confVars, inputVars, mainVars, flagVars, timerVars, sigalrm, sigchld,
               proc, launched, histVars>>

\* ----------------------------------------------------- quantum resolution
\* while ((opt = getopt(argc, argv, "q:")) != -1): case 'q' sets the quantum.
GetOpt ==
    /\ pc = "L49"
    /\ QUANT_SECONDS' = IF optarg # NoString THEN p1atoi(optarg) ELSE QUANT_SECONDS
    /\ pc' = "L61"
    /\ UNCHANGED <<queueVars, launchVars, hs, inputVars, status, optarg, QUANT_ENV, queue, child, wpid, pcb, flagVars,
                   timerVars, sigalrm, sigchld, proc, launched, histVars>>

\* A test that lets the environment replace a quantum already given.
Unset_always(q) == TRUE

\* if(QUANT_SECONDS < 0): no usable quantum so far.
Unset(q) == q < 0

\* The environment variable is read when it is set and no quantum was given;
\* when it is not set and no quantum was given, main returns EXIT_FAILURE.
ResolveEnv ==
    /\ pc = "L61"
    /\ IF QUANT_ENV # NoString
       THEN /\ QUANT_SECONDS' = IF Unset(QUANT_SECONDS) THEN p1atoi(QUANT_ENV)
                                 ELSE QUANT_SECONDS
            /\ pc' = "L71"
       ELSE /\ QUANT_SECONDS' = QUANT_SECONDS
            /\ pc' = IF Unset(QUANT_SECONDS) THEN "badconfig" ELSE "L71"
    /\ status' = IF pc' = "badconfig" THEN <<EXIT_FAILURE>> ELSE status
    /\ UNCHANGED <<queueVars, launchVars, hs, inputVars, optarg, QUANT_ENV, queue, child, wpid, pcb, flagVars,
                   timerVars, sigalrm, sigchld, proc, launched, histVars>>

\* if(QUANT_SECONDS < 0) return EXIT_FAILURE; otherwise main goes on to open
\* its input.
Refused(q) == q < 0

CheckQuantum ==
    /\ pc = "L71"
    /\ pc' = IF Refused(QUANT_SECONDS) THEN "badconfig" ELSE "L77"
    /\ status' = IF Refused(QUANT_SECONDS) THEN <<EXIT_FAILURE>> ELSE status
    /\ UNCHANGED <<queueVars, launchVars, hs, inputVars, confVars, queue, child, wpid, pcb, flagVars, timerVars,
                   sigalrm, sigchld, proc, launched, histVars>>

\* What open(filename, O_RDONLY) returns in the runs checked, which all name
\* a commands file: -1, or the first free descriptor.
OpenResults == {-1, 3}

\* A test that takes every descriptor for a good one.
OpenFailed_never(d) == FALSE

\* if(fd == -1)
OpenFailed(d) == d = -1

\* if (optind < argc) fd = open(filename, O_RDONLY); if(fd == -1) return
\* EXIT_FAILURE; otherwise main creates the queue, allocates its buffers,
\* sets up the timer value and the handlers and enters the launch loop.
OpenInput ==
    /\ pc = "L77"
    /\ \E r \in OpenResults :
         /\ fd' = r
         /\ pc' = IF OpenFailed(r) THEN "badinput" ELSE "launch"
         /\ status' = IF OpenFailed(r) THEN <<EXIT_FAILURE>> ELSE status
    /\ UNCHANGED <<queueVars, launchVars, hs, execFails, confVars, queue, child, wpid, pcb, flagVars,
                   timerVars, sigalrm, sigchld, proc, launched, histVars>>

\* ------------------------------------------------------------- launch loop
\* Quanta of CPU the child of command p may need once it is continued: a
\* command whose execvp fails returns EXIT_FAILURE there and then, within
\* its first quantum.
Needs(p) == IF p \in execFails THEN {1} ELSE 1..MaxNeed

\* One pass of the while loop over the input: fork succeeded, the parent
\* allocates the PCB and enqueues it.  The child starts before its raise.
Fork ==
    /\ pc = "launch"
    /\ launched < MaxProcs
    /\ \E n \in Needs(launched + 1) :
         LET p == launched + 1 IN
         /\ demand + n <= MaxWork
         /\ demand' = demand + n
         /\ proc' = [proc EXCEPT ![p] = [st |-> "run", raised |-> FALSE, need |-> n]]
         /\ pcb' = [pcb EXCEPT ![p] = [pid |-> p, totalCPUTime |-> 0,
                                       running |-> FALSE, finished |-> FALSE,
                                       mem |-> "live"]]
         /\ queue' = q_enqueue(queue, p)
         /\ launched' = p
         /\ work' = IF launched = 0 \/ work = n THEN n ELSE -1
    /\ UNCHANGED <<queueVars, launchVars, hs, inputVars, status, pc, confVars, child, wpid, flagVars, timerVars,
                   sigalrm, sigchld, dispatchLog, reapCount, freeCount,
                   exitedAt, stopSentDead, lostRefs, readyLog, strayReap, ticks,
                   expired>>

\* fork() returned -1: main returns EXIT_FAILURE.
ForkFail ==
    /\ pc = "launch"
    /\ launched < MaxProcs
    /\ pc' = "failed"
    /\ status' = <<EXIT_FAILURE>>
    /\ UNCHANGED <<queueVars, launchVars, hs, inputVars, confVars, queue, child, wpid, pcb, flagVars, timerVars,
                   sigalrm, sigchld, proc, launched, histVars>>

\* p1getline returned 0: the input is exhausted.
EndOfInput ==
    /\ pc = "launch"
    /\ pc' = "L170"
    /\ UNCHANGED <<queueVars, launchVars, hs, inputVars, status, confVars, queue, child, wpid, pcb, flagVars, timerVars,
                   sigalrm, sigchld, proc, launched, histVars>>

\* ----------------------------------------------------------- dispatch loop
Alive == pc \notin {"L49", "L61", "L71", "L77", "badconfig", "badinput", "done", "failed"}
Live(p) == p # NULL /\ pcb[p].mem = "live"

\* while(!queue->isEmpty(queue)) is false: destroy the queue and return 0.
LoopExit ==
    /\ pc = "L170"
    /\ q_isEmpty(queue)
    /\ pc' = "done"
    /\ status' = <<0>>
    /\ UNCHANGED <<queueVars, launchVars, hs, inputVars, confVars, queue, child, wpid, pcb, flagVars, timerVars,
                   sigalrm, sigchld, proc, launched, histVars>>

\* queue->dequeue(queue, (void**)&child)
Dequeue ==
    /\ pc = "L170"
    /\ ~q_isEmpty(queue)
    /\ child' = q_front(queue)
    /\ queue' = q_dequeue(queue)
    /\ dispatchLog' = Append(dispatchLog, q_front(queue))
    /\ readyLog' = Append(readyLog, Range(q_toArray(q_dequeue(queue))))
    /\ pc' = "L174"
    /\ UNCHANGED <<queueVars, launchVars, hs, inputVars, status, confVars, wpid, pcb, flagVars, timerVars, sigalrm,
                   sigchld, proc, launched, reapCount, freeCount, exitedAt,
                   stopSentDead, lostRefs, work, demand, ticks, strayReap, expired>>

\* kill(child->pid, SIGCONT)
Resume ==
    /\ pc = "L174"
    /\ proc' = SigCont(proc, pcb[child].pid)
    /\ lostRefs' = (lostRefs \/ ~Live(child))
    /\ ticks' = 0
    /\ pc' = "L175"
    /\ UNCHANGED <<queueVars, launchVars, hs, inputVars, status, confVars, queue, child, wpid, pcb, flagVars, timerVars,
                   sigalrm, sigchld, launched, dispatchLog, reapCount,
                   freeCount, exitedAt, stopSentDead, readyLog, work, demand,
                   strayReap, expired>>

\* childRunning = true
SetChildRunning ==
    /\ pc = "L175"
    /\ childRunning' = TRUE
    /\ pc' = "L176"
    /\ UNCHANGED <<queueVars, launchVars, hs, inputVars, status, confVars, queue, child, wpid, pcb, timeLeft, timeRuning,
                   timerVars, sigalrm, sigchld, proc, launched, histVars>>

\* timeLeft = true
SetTimeLeft ==
    /\ pc = "L176"
    /\ timeLeft' = TRUE
    /\ pc' = "L177"
    /\ UNCHANGED <<queueVars, launchVars, hs, inputVars, status, confVars, queue, child, wpid, pcb, childRunning,
                   timeRuning, timerVars, sigalrm, sigchld, proc, launched,
                   histVars>>

\* setitimer(ITIMER_REAL, &timer, NULL); its result is not looked at.
ArmTimer ==
    /\ pc = "L177"
    /\ timerArmed' = SetITimer(timerArmed, QUANT_SECONDS)
    /\ stalePossible' = (stalePossible /\ ~TimerValid(QUANT_SECONDS))
    /\ pc' = "L180"
    /\ UNCHANGED <<queueVars, launchVars, hs, inputVars, status, confVars, queue, child, wpid, pcb, flagVars, sigalrm,
                   sigchld, proc, launched, histVars>>

\* while(childRunning && timeLeft): go on to sleep(1), or leave the loop.
WaitTest(running, left) == running /\ left

WaitCheck ==
    /\ pc = "L180"
    /\ pc' = IF WaitTest(childRunning, timeLeft) THEN "L181" ELSE "L185"
    /\ UNCHANGED <<queueVars, launchVars, hs, inputVars, status, confVars, queue, child, wpid, pcb, flagVars, timerVars,
                   sigalrm, sigchld, proc, launched, histVars>>

\* sleep(1) is entered: main is asleep until a handler has run or the second
\* is over.
Sleep ==
    /\ pc = "L181"
    /\ pc' = "sleep"
    /\ UNCHANGED <<queueVars, launchVars, hs, inputVars, status, confVars, queue, child, wpid, pcb, flagVars, timerVars,
                   sigalrm, sigchld, proc, launched, histVars>>

\* Where main is after a handler has run: a sleep is cut short by it.
AfterHandler(at) == IF at = "sleep" THEN "L180" ELSE at

\* A waitpid that reports a child that is gone as one that has not exited.
WaitPidResult_gone_is_running(ps, p) ==
    CASE ps[p].st = "zombie" -> p
      [] OTHER -> 0

\* A waitpid that finds no such child, whatever the child's state.
WaitPidResult_nochild(ps, p) == -1

\* waitpid(pid, &status, WNOHANG): the pid of a zombie, which is thereby
\* reaped; 0 for a child that has not exited; -1 once the child is gone.
WaitPidResult(ps, p) ==
    CASE ps[p].st = "zombie" -> p
      [] ps[p].st \in {"run", "stop"} -> 0
      [] OTHER -> -1

Reap ==
    /\ pc = "L185"
    /\ LET p == pcb[child].pid
           r == WaitPidResult(proc, p)
       IN /\ wpid' = r
          /\ proc' = IF r = p THEN [proc EXCEPT ![p].st = "reaped"] ELSE proc
          /\ reapCount' = IF r = p THEN [reapCount EXCEPT ![p] = @ + 1]
                          ELSE reapCount
    /\ lostRefs' = (lostRefs \/ ~Live(child))
    /\ pc' = "L187"
    /\ UNCHANGED <<queueVars, launchVars, hs, inputVars, status, confVars, queue, child, pcb, flagVars, timerVars,
                   sigalrm, sigchld, launched, dispatchLog, freeCount,
                   exitedAt, stopSentDead, readyLog, work, demand, ticks, strayReap,
                   expired>>

\* The reap result read the wrong way round.
StillRunning_inverted(pid) == pid # 0

\* if(pid == 0)
StillRunning(pid) == pid = 0

\* kill(child->pid, SIGSTOP); child->totalCPUTime += QUANT_SECONDS/1000;
\* queue->enqueue(queue, child);
Preempt ==
    /\ pc = "L187"
    /\ StillRunning(wpid)
    /\ proc' = SigStop(proc, pcb[child].pid)
    /\ stopSentDead' = (stopSentDead \/ Exited(pcb[child].pid))
    /\ pcb' = [pcb EXCEPT ![child].totalCPUTime = @ + (QUANT_SECONDS \div 1000)]
    /\ queue' = q_enqueue(queue, child)
    /\ lostRefs' = (lostRefs \/ ~Live(child))
    /\ child' = NULL
    /\ ticks' = 0
    /\ expired' = FALSE
    /\ wpid' = 0
    /\ pc' = "L170"
    /\ UNCHANGED <<queueVars, launchVars, hs, inputVars, status, confVars, flagVars, timerVars, sigalrm, sigchld,
                   launched, dispatchLog, reapCount, freeCount, exitedAt,
                   readyLog, work, demand, strayReap>>

\* child->finished = true; free(child);
Finalize ==
    /\ pc = "L187"
    /\ ~StillRunning(wpid)
    /\ pcb' = [pcb EXCEPT ![child].finished = TRUE, ![child].mem = "freed"]
    /\ freeCount' = [freeCount EXCEPT ![child] = @ + 1]
    /\ exitedAt' = [exitedAt EXCEPT ![child] = 0]
    /\ lostRefs' = (lostRefs \/ ~Live(child))
    /\ child' = NULL
    /\ ticks' = 0
    /\ expired' = FALSE
    /\ wpid' = 0
    /\ pc' = "L170"
    /\ UNCHANGED <<queueVars, launchVars, hs, inputVars, status, confVars, queue, flagVars, timerVars, sigalrm,
                   sigchld, proc, launched, dispatchLog, reapCount,
                   stopSentDead, readyLog, work, demand, strayReap>>

\* ---------------------------------------------------------- signal handlers
\* timeRuning += QUANT_SECONDS/1000; timeLeft = false;
alarm_handler ==
    /\ Alive
    /\ sigalrm
    /\ sigalrm' = FALSE
    /\ timeRuning' = timeRuning + (QUANT_SECONDS \div 1000)
    /\ timeLeft' = FALSE
    /\ pc' = AfterHandler(pc)
    /\ UNCHANGED <<queueVars, launchVars, hs, inputVars, status, mainVars, confVars, childRunning, timerVars, sigchld,
                   proc, launched, histVars>>

\* A handler that also marks the PCB of every child it collects as finished.
sigchld_handler_finalizes ==
    /\ Alive
    /\ sigchld
    /\ sigchld' = FALSE
    /\ proc' = [p \in Procs |-> IF proc[p].st = "zombie"
                                THEN [proc[p] EXCEPT !.st = "reaped"]
                                ELSE proc[p]]
    /\ reapCount' = [p \in Procs |-> IF proc[p].st = "zombie" THEN reapCount[p] + 1
                                     ELSE reapCount[p]]
    /\ pcb' = [p \in Procs |-> IF proc[p].st = "zombie"
                               THEN [pcb[p] EXCEPT !.finished = TRUE]
                               ELSE pcb[p]]
    /\ childRunning' = IF \E p \in Procs : proc[p].st = "zombie" THEN FALSE
                       ELSE childRunning
    /\ pc' = AfterHandler(pc)
    /\ UNCHANGED <<queueVars, launchVars, hs, inputVars, status, queue, child, wpid, confVars, timeLeft,
                   timeRuning, timerVars, sigalrm, launched, dispatchLog, freeCount,
                   exitedAt, stopSentDead, lostRefs, readyLog, work, demand, ticks,
                   expired, strayReap>>

\* while((pid = waitpid(-1, &status, WNOHANG)) > 0) childRunning = false;
\* every zombie there is is reaped, whichever child it is.  (Without
\* WUNTRACED a stopped or continued child makes waitpid return 0, so the
\* notifications of stops and continues change nothing and are left out.)
Zombies(ps) == {p \in Procs : ps[p].st = "zombie"}

sigchld_handler ==
    /\ Alive
    /\ sigchld
    /\ sigchld' = FALSE
    /\ LET z == Zombies(proc) IN
       /\ proc' = [p \in Procs |-> IF p \in z THEN [proc[p] EXCEPT !.st = "reaped"]
                                   ELSE proc[p]]
       /\ reapCount' = [p \in Procs |-> IF p \in z THEN reapCount[p] + 1
                                        ELSE reapCount[p]]
       /\ childRunning' = IF z # {} THEN FALSE ELSE childRunning
       /\ strayReap' = (strayReap \/ (child # NULL /\ z \ {child} # {}))
    /\ pc' = AfterHandler(pc)
    /\ UNCHANGED <<queueVars, launchVars, hs, inputVars, status, mainVars, confVars, timeLeft, timeRuning, timerVars,
                   sigalrm, launched, dispatchLog, freeCount, exitedAt,
                   stopSentDead, lostRefs, readyLog, work, demand, ticks, expired>>

\* ---------------------------------------------------- children and the timer
\* A child that goes on to execvp without stopping itself.
ChildRaise_skipped(p) ==
    /\ proc[p].st = "run"
    /\ ~proc[p].raised
    /\ proc' = [proc EXCEPT ![p].raised = TRUE]
    /\ UNCHANGED <<queueVars, launchVars, hs, inputVars, status, pc, mainVars, confVars, flagVars, timerVars, sigalrm,
                   sigchld, launched, histVars>>

\* raise(SIGSTOP) in the child, between fork and execvp.
ChildRaise(p) ==
    /\ proc[p].st = "run"
    /\ ~proc[p].raised
    /\ proc' = [proc EXCEPT ![p].st = "stop", ![p].raised = TRUE]
    /\ UNCHANGED <<queueVars, launchVars, hs, inputVars, status, pc, mainVars, confVars, flagVars, timerVars, sigalrm,
                   sigchld, launched, histVars>>

\* The target program ends (or execvp failed and the child returned
\* EXIT_FAILURE): the child becomes a zombie and SIGCHLD is raised for main.
\* An exit while main waits can come at any point of the timer's period,
\* its very end included.
ChildExit(p) ==
    /\ Executing(p)
    /\ proc[p].need = 1
    /\ proc' = [proc EXCEPT ![p].st = "zombie", ![p].need = 0]
    /\ sigchld' = TRUE
    /\ exitedAt' = [exitedAt EXCEPT ![p] = Len(dispatchLog)]
    /\ stalePossible' = (stalePossible \/ (timerArmed /\ pc \in {"L180", "L181", "sleep"}))
    /\ UNCHANGED <<queueVars, launchVars, hs, inputVars, status, pc, mainVars, confVars, flagVars, timerArmed, sigalrm,
                   launched, dispatchLog, reapCount, freeCount, stopSentDead,
                   lostRefs, readyLog, work, demand, ticks, strayReap, expired>>

\* One whole timer period passes while main is asleep.  A child executing
\* its program uses up one quantum of what it needs; a child in its last
\* quantum exits before the period is over, and a child that has not yet
\* stopped itself does so first.  The armed timer raises SIGALRM.  The second
\* of sleep(1) may be over by then, and then sleep returns.
Tick ==
    /\ pc = "sleep"
    /\ ~sigalrm /\ ~sigchld
    /\ \E over \in BOOLEAN : pc' = IF over THEN "L180" ELSE "sleep"
    /\ \A p \in Procs : proc[p].st = "run" => (proc[p].raised /\ proc[p].need >= 2)
    /\ proc' = [p \in Procs |-> IF Executing(p)
                                THEN [proc[p] EXCEPT !.need = @ - 1]
                                ELSE proc[p]]
    /\ sigalrm' = timerArmed
    /\ stalePossible' = FALSE
    /\ ticks' = IF child # NULL /\ Executing(child) THEN ticks + 1 ELSE ticks
    /\ expired' = (expired \/ timerArmed)
    /\ UNCHANGED <<queueVars, launchVars, hs, inputVars, status, mainVars, confVars, flagVars, timerArmed, sigchld,
                   launched, dispatchLog, reapCount, freeCount, exitedAt,
                   stopSentDead, lostRefs, readyLog, work, demand, strayReap>>

\* The period that was running when the last wait ended early runs out: the
\* periodic timer, never disarmed, raises SIGALRM outside the wait it was
\* armed for, be it later in the same dispatch or early in the next one,
\* before the timer is armed again.
StaleExpiry ==
    /\ Alive
    /\ timerArmed
    /\ stalePossible
    /\ sigalrm' = TRUE
    /\ stalePossible' = FALSE
    /\ expired' = (expired \/ pc \in {"L180", "L181", "sleep", "L185", "L187"})
    /\ UNCHANGED <<queueVars, launchVars, hs, inputVars, status, pc, mainVars, confVars, flagVars, timerArmed, sigchld,
                   proc, launched, dispatchLog, reapCount, freeCount, exitedAt,
                   stopSentDead, lostRefs, readyLog, work, demand, strayReap, ticks>>

\* ------------------------------------------------------------ specification
MainStep ==
    \/ GetOpt
    \/ ResolveEnv
    \/ CheckQuantum
    \/ OpenInput
    \/ Fork
    \/ ForkFail
    \/ EndOfInput
    \/ LoopExit
    \/ Dequeue
    \/ Resume
    \/ SetChildRunning
    \/ SetTimeLeft
    \/ ArmTimer
    \/ WaitCheck
    \/ Sleep
    \/ Reap
    \/ Preempt
    \/ Finalize

Next ==
    \/ MainStep
    \/ alarm_handler
    \/ sigchld_handler
    \/ \E p \in Procs : ChildRaise(p)
    \/ \E p \in Procs : ChildExit(p)
    \/ Tick
    \/ StaleExpiry

Spec == Init /\ [][Next]_vars

\* main is scheduled, pending signals are delivered, children run, time passes.
FairSpec ==
    /\ Spec
    /\ WF_vars(MainStep)
    /\ WF_vars(alarm_handler)
    /\ WF_vars(sigchld_handler)
    /\ \A p \in Procs : WF_vars(ChildRaise(p)) /\ WF_vars(ChildExit(p))
    /\ WF_vars(Tick)

Spec100 == Init100 /\ [][Next]_vars

\* Runs that can fail at each point a run can fail at: no quantum from either
\* source or a quantum of 500, and (as in every run) an input that may not
\* open and a fork that may fail.
FailInit ==
    /\ pc = "L49"
    /\ QUANT_SECONDS = -1
    /\ optarg \in {NoString, S500}
    /\ QUANT_ENV = NoString
    /\ execFails = {}
    /\ InitRest

FailSpec == FailInit /\ [][Next]_vars

\* Runs with a quantum of 500 in which the program of the first or of the
\* second command fails to start.
ExecInit ==
    /\ pc = "L49"
    /\ QUANT_SECONDS = -1
    /\ optarg = S500
    /\ QUANT_ENV = NoString
    /\ execFails \in {{1}, {2}}
    /\ InitRest

ExecSpec == ExecInit /\ [][Next]_vars

\* The queue exercised alone: any sequence of enqueue, dequeue, front and
\* clear on a queue created with a small capacity.
QueueInit ==
    /\ pc = "queue"
    /\ QUANT_SECONDS = -1
    /\ optarg = NoString
    /\ QUANT_ENV = NoString
    /\ queue = ArrayQueue(QueueCap)
    /\ execFails = {}
    /\ InitOther
    /\ InitLauncher
    /\ InitSet

\* q->enqueue(q, element)
Enqueue(element) ==
    /\ pc = "queue"
    /\ Len(fifo) < MaxOps
    /\ queue' = q_enqueue(queue, element)
    /\ fifo' = Append(fifo, element)
    /\ ret' = [op |-> "enqueue", arg |-> NULL, status |-> TRUE]
    /\ UNCHANGED <<pc, launchVars, hs, inputVars, status, confVars, taken, child, wpid, pcb, flagVars, timerVars,
                   sigalrm, sigchld, proc, launched, histVars>>

\* q->dequeue(q, &element): the front element when there is one; false, and
\* nothing changed, on an empty queue.
TakeFront ==
    /\ pc = "queue"
    /\ queue' = q_dequeue(queue)
    /\ child' = IF HasFront(queue) THEN q_front(queue) ELSE child
    /\ taken' = IF ~q_isEmpty(queue) THEN Append(taken, q_front(queue)) ELSE taken
    /\ ret' = [op |-> "dequeue", arg |-> NULL, status |-> HasFront(queue)]
    /\ UNCHANGED <<pc, launchVars, hs, inputVars, status, confVars, fifo, wpid, pcb, flagVars,
                   timerVars, sigalrm, sigchld, proc, launched, histVars>>

\* q->front(q, &element): the front element when there is one, which stays
\* in the queue; false on an empty queue.
Front ==
    /\ pc = "queue"
    /\ child' = IF HasFront(queue) THEN q_front(queue) ELSE child
    /\ ret' = [op |-> "front", arg |-> NULL, status |-> HasFront(queue)]
    /\ UNCHANGED <<pc, launchVars, hs, inputVars, status, confVars, queue, fifo, taken, wpid,
                   pcb, flagVars, timerVars, sigalrm, sigchld, proc, launched, histVars>>

\* q->clear(q): every element in the queue has left it.
Clear ==
    /\ pc = "queue"
    /\ queue' = q_clear(queue)
    /\ taken' = fifo
    /\ ret' = [op |-> "clear", arg |-> NULL, status |-> TRUE]
    /\ UNCHANGED <<pc, launchVars, hs, inputVars, status, confVars, child, fifo, wpid,
                   pcb, flagVars, timerVars, sigalrm, sigchld, proc, launched, histVars>>

QueueNext ==
    \/ \E e \in Procs : Enqueue(e)
    \/ TakeFront
    \/ Front
    \/ Clear

QueueSpec == QueueInit /\ [][QueueNext]_vars

\* ------------------------------------------------- the hash set exercised alone
\* Any sequence of add, remove and clear with members 1..MaxMember on a set
\* created with a small capacity.
Members == 1..MaxMember

HashSetInit ==
    /\ pc = "set"
    /\ QUANT_SECONDS = -1
    /\ optarg = NoString
    /\ QUANT_ENV = NoString
    /\ execFails = {}
    /\ queue = ArrayQueue(MAX_PROCESSES)
    /\ InitOther
    /\ InitLauncher
    /\ InitSet

\* s->add(s, member)
SetAdd(member) ==
    /\ pc = "set"
    /\ hs' = s_add(hs, member)
    /\ ret' = [op |-> "add", arg |-> member, status |-> s_add_status(hs, member)]
    /\ UNCHANGED <<pc, status, fifo, taken, launchVars, schedVars>>

\* s->remove(s, member)
SetRemove(member) ==
    /\ pc = "set"
    /\ hs' = s_remove(hs, member)
    /\ ret' = [op |-> "remove", arg |-> member, status |-> s_remove_status(hs, member)]
    /\ UNCHANGED <<pc, status, fifo, taken, launchVars, schedVars>>

\* s->clear(s)
SetClear ==
    /\ pc = "set"
    /\ hs' = s_clear(hs)
    /\ ret' = [op |-> "clear", arg |-> NULL, status |-> TRUE]
    /\ UNCHANGED <<pc, status, fifo, taken, launchVars, schedVars>>

HashSetNext ==
    \/ \E m \in Members : SetAdd(m)
    \/ \E m \in Members : SetRemove(m)
    \/ SetClear

HashSetSpec == HashSetInit /\ [][HashSetNext]_vars

\* ------------------------------------------------ the launchers uspsv1, uspsv2
\* uspsv1 forks a child per command, which executes its program at once, and
\* waits for them all.  uspsv2 has every child install a handler for SIGUSR1
\* and spin on not_ready; main sleeps, then sends every child SIGUSR1, then
\* SIGSTOP, then SIGCONT, and waits for them all.  pc is main's position:
\* loop | nanosleep | start | stop | cont | wait | returned | forkfailed.
LaunchInit ==
    /\ pc = "loop"
    /\ QUANT_SECONDS = -1
    /\ optarg = NoString
    /\ QUANT_ENV = NoString
    /\ execFails = {}
    /\ queue = ArrayQueue(MAX_PROCESSES)
    /\ InitOther
    /\ InitSet
    /\ version \in {1, 2}
    /\ kid = [p \in Procs |-> NoKid]
    /\ pids = <<>>
    /\ idx = 0

\* One pass of the loop over the input: pid = fork() succeeded, and the
\* parent records the pid: pids[process_count] = pid; process_count++.
LFork ==
    /\ pc = "loop"
    /\ Len(pids) < MaxProcs
    /\ LET p == Len(pids) + 1 IN
       /\ kid' = [kid EXCEPT ![p] = [NoKid EXCEPT !.st = "forked"]]
       /\ pids' = Append(pids, p)
    /\ UNCHANGED <<pc, status, version, idx, schedVars, queueVars, hs>>

\* fork() returned -1: return EXIT_FAILURE.
LForkFail ==
    /\ pc = "loop"
    /\ Len(pids) < MaxProcs
    /\ pc' = "forkfailed"
    /\ status' = <<EXIT_FAILURE>>
    /\ UNCHANGED <<launchVars, schedVars, queueVars, hs>>

\* p1getline returned 0: uspsv1 goes on to wait, uspsv2 to its nanosleep.
LEndOfInput ==
    /\ pc = "loop"
    /\ pc' = IF version = 1 THEN "wait" ELSE "nanosleep"
    /\ UNCHANGED <<status, launchVars, schedVars, queueVars, hs>>

\* nanosleep(&delay, NULL) is over.  The children have had 750 ms, in which
\* each of them has run as far as it was scheduled to.
LNanosleep ==
    /\ pc = "nanosleep"
    /\ pc' = "start"
    /\ idx' = 0
    /\ UNCHANGED <<status, version, kid, pids, schedVars, queueVars, hs>>

\* Has the child ended?  waitpid(pid, &status, 0) blocks until it has.
Terminated_nohang(k) == TRUE

Terminated(k) == k.st \in {"done", "killed"}

\* One pass of a loop that sends sig to every recorded pid, or its end.
\* SIGUSR1 becomes pending for a child that is alive; SIGSTOP stops it and
\* SIGCONT continues it there and then.
SendAll(at, sig, next) ==
    /\ pc = at
    /\ IF idx < Len(pids)
       THEN LET p == pids[idx + 1] IN
            /\ kid' = IF Terminated(kid[p]) THEN kid
                       ELSE CASE sig = "SIGUSR1" -> [kid EXCEPT ![p].usr1 = TRUE]
                              [] sig = "SIGSTOP" -> [kid EXCEPT ![p].stopped = TRUE]
                              [] sig = "SIGCONT" -> [kid EXCEPT ![p].stopped = FALSE]
            /\ idx' = idx + 1
            /\ pc' = pc
       ELSE /\ pc' = next
            /\ idx' = 0
            /\ kid' = kid
    /\ UNCHANGED <<status, version, pids, schedVars, queueVars, hs>>

SendStart == SendAll("start", "SIGUSR1", "stop")
SendStop == SendAll("stop", "SIGSTOP", "cont")
SendCont == SendAll("cont", "SIGCONT", "wait")

\* for(i = 0; i < process_count; i++) waitpid(pids[i], &status, 0); then
\* return 0.
WaitAll ==
    /\ pc = "wait"
    /\ IF idx < Len(pids)
       THEN LET p == pids[idx + 1] IN
            /\ Terminated(kid[p])
            /\ kid' = [kid EXCEPT ![p].reaped = TRUE]
            /\ idx' = idx + 1
            /\ pc' = pc
            /\ status' = status
       ELSE /\ pc' = "returned"
            /\ status' = <<0>>
            /\ idx' = idx
            /\ kid' = kid
    /\ UNCHANGED <<version, pids, schedVars, queueVars, hs>>

\* signal(SIGUSR1, signal_handler) in the child of uspsv2, which then enters
\* while(not_ready){}.
KidInstall(p) ==
    /\ version = 2
    /\ kid[p].st = "forked" /\ ~kid[p].stopped
    /\ kid' = [kid EXCEPT ![p].handler = TRUE, ![p].st = "spin"]
    /\ UNCHANGED <<pc, status, version, pids, idx, schedVars, queueVars, hs>>

\* A child that does not wait for the start signal.
NotReady_never(k) == FALSE

\* while(not_ready){}
NotReady(k) == k.not_ready

\* execvp(arguments[0], arguments): at once in uspsv1, after the spin loop
\* in uspsv2.  (When execvp fails the child returns EXIT_FAILURE, which is
\* its exit all the same.)
KidExec(p) ==
    /\ ~kid[p].stopped
    /\ \/ version = 1 /\ kid[p].st = "forked"
       \/ version = 2 /\ kid[p].st = "spin" /\ ~NotReady(kid[p])
    /\ kid' = [kid EXCEPT ![p].st = "exec", ![p].handler = FALSE]
    /\ UNCHANGED <<pc, status, version, pids, idx, schedVars, queueVars, hs>>

\* The pending SIGUSR1 is delivered to a child that is not stopped:
\* signal_handler sets not_ready = false when it is installed; the default
\* action of SIGUSR1 ends the process when it is not.
KidSignal(p) ==
    /\ kid[p].usr1 /\ ~kid[p].stopped /\ ~Terminated(kid[p])
    /\ kid' = IF kid[p].handler
              THEN [kid EXCEPT ![p].usr1 = FALSE, ![p].not_ready = FALSE]
              ELSE [kid EXCEPT ![p].usr1 = FALSE, ![p].st = "killed"]
    /\ UNCHANGED <<pc, status, version, pids, idx, schedVars, queueVars, hs>>

\* The target program ends.
KidExit(p) ==
    /\ kid[p].st = "exec" /\ ~kid[p].stopped
    /\ kid' = [kid EXCEPT ![p].st = "done"]
    /\ UNCHANGED <<pc, status, version, pids, idx, schedVars, queueVars, hs>>

LaunchNext ==
    \/ LFork
    \/ LForkFail
    \/ LEndOfInput
    \/ LNanosleep
    \/ SendStart
    \/ SendStop
    \/ SendCont
    \/ WaitAll
    \/ \E p \in Procs : KidInstall(p)
    \/ \E p \in Procs : KidExec(p)
    \/ \E p \in Procs : KidSignal(p)
    \/ \E p \in Procs : KidExit(p)

LaunchSpec == LaunchInit /\ [][LaunchNext]_vars

\* Configuration and launch alone, from any configuration.
ConfNext ==
    \/ GetOpt
    \/ ResolveEnv
    \/ CheckQuantum
    \/ OpenInput
    \/ Fork
    \/ ForkFail
    \/ EndOfInput
    \/ \E p \in Procs : ChildRaise(p)

ConfSpec == ConfInit /\ [][ConfNext]_vars

\* ------------------------------------------------------------------ claims
InQueue(p) == p \in Range(q_toArray(queue))
Waiting == pc \in {"L180", "L181", "sleep"}
Dispatched(p) == \E i \in 1..Len(dispatchLog) : dispatchLog[i] = p

\* p has been sent SIGCONT by the scheduler.
Continued(p) ==
    \E i \in 1..Len(dispatchLog) :
        dispatchLog[i] = p /\ (i < Len(dispatchLog) \/ pc # "L174")

\* C1: round-robin fairness.  Between two consecutive dispatches of the same
\* process, every process that was in the ReadyQueue at the first of the two
\* has been dispatched.
C1_RoundRobinFairness ==
    \A i, j \in 1..Len(dispatchLog) :
        (/\ i < j
         /\ dispatchLog[i] = dispatchLog[j]
         /\ \A k \in (i + 1)..(j - 1) : dispatchLog[k] # dispatchLog[i])
        => \A q \in readyLog[i] : \E k \in (i + 1)..(j - 1) : dispatchLog[k] = q

\* A process is dispatched a second time, after another that was ready.
C1_Witness ==
    \E i, j \in 1..Len(dispatchLog) :
        i < j /\ dispatchLog[i] = dispatchLog[j] /\ readyLog[i] # {}

\* C2: two commands that each need 3 quanta are dispatched A,B,A,B,A,B: the
\* log never shows the same process twice in a row while the other is
\* unfinished, and when the loop is over it is exactly that sequence.
C2_TwoByThree ==
    (launched = 2 /\ work = 3 /\ pc \notin {"launch", "failed"})
    => /\ \A i \in 1..(Len(dispatchLog) - 1) :
            i < 6 => dispatchLog[i] # dispatchLog[i + 1]
       /\ pc = "done" => dispatchLog = <<1, 2, 1, 2, 1, 2>>

\* C3: at most one launched process is in the resumed state: continued by
\* the scheduler, not stopped and not exited.
C3_AtMostOneRunning ==
    Cardinality({p \in Procs : Continued(p) /\ proc[p].st = "run"}) <= 1

\* One process runs, resumed, while another that ran before it is stopped.
C3_Witness ==
    \E p, q \in Procs :
        /\ p # q
        /\ Continued(p) /\ Executing(p)
        /\ Continued(q) /\ proc[q].st = "stop"

\* C4: termination.  Whatever the accepted quantum, once the launch loop is
\* over the dispatch loop reaches DONE.
C4_Termination == (pc = "L170") ~> (pc = "done")

\* C5: preemption is guaranteed.  Whenever a quantum passes while the
\* scheduler waits on a dispatched process that is executing, the
\* quantum-expiry event is raised for the scheduler.
C5_PreemptionGuaranteed ==
    [][(Tick /\ Waiting /\ child # NULL /\ Executing(child)) => sigalrm']_vars

\* C6: an exited process is never sent the stop signal and never put back in
\* the ReadyQueue.
C6_ExitedNeverRequeued ==
    /\ ~stopSentDead
    /\ \A p \in Procs : Exited(p) => ~InQueue(p)

\* C7: no child-exit event is lost.  While the scheduler waits on a process
\* that has exited during this very dispatch, and the handler has run, the
\* exit is on record: childRunning is false.
C7_NoLostExit ==
    (/\ Waiting
     /\ child # NULL
     /\ Exited(child)
     /\ exitedAt[child] = Len(dispatchLog)
     /\ ~sigchld)
    => ~childRunning

\* C8: the wait of a dispatch ends only on quantum expiry or on the exit of
\* the dispatched process, and a handler never collects the status of a
\* process other than the dispatched one.
C8_WaitEndsOnOwnEvents ==
    /\ pc = "L185" => (~timeLeft \/ Exited(child))
    /\ ~strayReap

\* C9: every launched process's exit status is collected exactly once: never
\* twice at any time, and once for each by the time the dispatch loop is over.
C9_ReapedExactlyOnce ==
    /\ \A p \in Procs : reapCount[p] <= 1
    /\ \A p \in Procs : (pcb[p].mem = "freed") => reapCount[p] = 1
    /\ pc = "done" => \A p \in 1..launched : reapCount[p] = 1

\* The loop is over after two processes, and both were collected.
C9_Witness ==
    pc = "done" /\ launched = 2 /\ \A p \in 1..2 : reapCount[p] = 1

\* C10: a PCB is finalized at most once; a finalized PCB is marked finished,
\* is not in the ReadyQueue, is not the dispatched PCB, and no freed PCB was
\* ever dereferenced or enqueued.
C10_FinalizedOnce ==
    /\ \A p \in Procs : freeCount[p] <= 1
    /\ \A p \in Procs :
         pcb[p].mem = "freed" => (pcb[p].finished /\ ~InQueue(p) /\ child # p)
    /\ ~lostRefs

\* One PCB is finalized and the loop has gone on to dispatch another.
C10_Witness ==
    \E p \in Procs : pcb[p].mem = "freed" /\ child # NULL /\ pc = "L187"

\* C11: every launched process is born suspended.  A child that executes its
\* target program, or has exited from it, has been sent the continue signal
\* by the scheduler in a dispatch of its own.
C11_BornSuspended ==
    \A p \in Procs : (Executing(p) \/ Exited(p)) => Continued(p)

\* One child executes its program, resumed, while another that has stopped
\* itself has not been dispatched yet and is still stopped.
C11_Witness ==
    \E p, q \in Procs :
        /\ Executing(p) /\ Continued(p)
        /\ proc[q].raised /\ proc[q].st = "stop" /\ ~Dispatched(q)

\* The quantum resolution is over: main has failed or gone on to launch.
Configured == pc \notin {"L49", "L61", "L71"}

\* C12: a non-positive or missing quantum is fatal.  Once the resolution is
\* over, a resolved quantum of zero or less, or no value from either source,
\* means the run has failed with no process launched.
C12_NonPositiveIsFatal ==
    (/\ Configured
     /\ \/ QUANT_SECONDS <= 0
        \/ (optarg = NoString /\ QUANT_ENV = NoString))
    => (pc = "badconfig" /\ launched = 0)

\* C13: configuration precedence.  Override 500 and fallback 200 give 500;
\* no override and fallback 200 give 200; neither fails the run before any
\* launch; in general the override's value is the quantum whenever there is
\* an override, and the fallback's value only when there is none.
C13_ConfigurationPrecedence ==
    Configured =>
      /\ (optarg = S500 /\ QUANT_ENV = S200)
           => (pc # "badconfig" /\ QUANT_SECONDS = 500)
      /\ (optarg = NoString /\ QUANT_ENV = S200)
           => (pc # "badconfig" /\ QUANT_SECONDS = 200)
      /\ (optarg = NoString /\ QUANT_ENV = NoString)
           => (pc = "badconfig" /\ launched = 0)
      /\ optarg # NoString => QUANT_SECONDS = p1atoi(optarg)
      /\ (optarg = NoString /\ QUANT_ENV # NoString)
           => QUANT_SECONDS = p1atoi(QUANT_ENV)

\* A run with override 500 and fallback 200 has launched a process.
C13_Witness ==
    /\ optarg = S500 /\ QUANT_ENV = S200
    /\ QUANT_SECONDS = 500 /\ pc = "launch" /\ launched >= 1

\* C14: three commands that each end within their first quantum, quantum
\* 100.  No more than three dispatches are made, the PCBs are finalized in
\* launch order (the finalized ones are always the first-launched ones), and
\* when the loop is over all three are finalized and the ReadyQueue is empty.
C14_ThreeShortCommands ==
    (launched = 3 /\ work = 1 /\ QUANT_SECONDS = 100 /\ pc \notin {"launch", "failed"})
    => /\ Len(dispatchLog) <= 3
       /\ \A p, q \in 1..3 : (p < q /\ pcb[q].mem = "freed") => pcb[p].mem = "freed"
       /\ pc = "done" => /\ \A p \in 1..3 : pcb[p].mem = "freed"
                         /\ q_isEmpty(queue)

\* C15: the FIFO contract of ArrayQueue.  The elements dequeued are, in
\* order, the first of the elements enqueued; the queue holds the rest, in
\* order; isEmpty is true exactly when as many were dequeued as enqueued;
\* and the buffer has grown to hold whatever was enqueued.
C15_FifoContract ==
    pc = "queue" =>
      /\ Len(taken) <= Len(fifo)
      /\ taken = SubSeq(fifo, 1, Len(taken))
      /\ q_toArray(queue) = SubSeq(fifo, Len(taken) + 1, Len(fifo))
      /\ q_isEmpty(queue) <=> (Len(fifo) = Len(taken))
      /\ queue.count = Len(fifo) - Len(taken)
      /\ queue.count <= queue.size

\* Elements were dequeued, and the queue has since grown beyond its first
\* capacity and holds more than that capacity.
C15_Witness ==
    /\ pc = "queue"
    /\ Len(taken) >= 1
    /\ queue.size > QueueCap
    /\ queue.count > QueueCap
    /\ q_front(queue) = fifo[Len(taken) + 1]

\* Number of times p is in the ReadyQueue.
TimesQueued(p) ==
    Cardinality({j \in 1..queue.count : q_toArray(queue)[j] = p})

\* C16: a ready PCB (launched, not the dispatched one, not finalized) is in
\* the ReadyQueue exactly once; the dispatched PCB and the finalized PCBs
\* are not in it at all.
C16_ReadyQueueInvariant ==
    pc # "queue" =>
      \A p \in Procs :
        TimesQueued(p) = IF pcb[p].mem = "live" /\ child # p THEN 1 ELSE 0

\* In the dispatch loop one PCB is dispatched, not for the first time,
\* another is finalized and a third is ready.
C16_Witness ==
    \E p, q, r \in Procs :
        /\ child = p /\ pc = "L180"
        /\ \E i \in 1..(Len(dispatchLog) - 1) : dispatchLog[i] = p
        /\ pcb[q].mem = "freed"
        /\ pcb[r].mem = "live" /\ r # p /\ TimesQueued(r) = 1

\* C17: when the dispatch loop is over every launched process has ended and
\* had its status collected, and its PCB is finished and released; none is
\* left running or stopped.
C17_AllFinishedAtDone ==
    pc = "done" =>
      \A p \in 1..launched :
        /\ pcb[p].finished /\ pcb[p].mem = "freed"
        /\ proc[p].st = "reaped"

\* The loop is over after three processes, one of which was preempted and
\* dispatched again before it ended.
C17_Witness ==
    /\ pc = "done" /\ launched = 3 /\ Len(dispatchLog) > 3
    /\ \A p \in 1..3 : pcb[p].finished /\ proc[p].st = "reaped"

\* C18: quantum bound per dispatch.  The dispatched process executes for at
\* most one whole quantum in a dispatch: it is suspended upon the first
\* expiry, and no second period passes while the dispatch is in progress.
C18_QuantumBound == ticks <= 1

\* C19: a resume or suspend that fails on a PCB the scheduler holds as alive
\* finalizes that PCB there and then: after the step of main that sent the
\* signal the PCB is released and is not in the ReadyQueue.
C19_FailedSignalFinalizes ==
    [][(/\ \/ (pc = "L174" /\ pc' = "L175")
           \/ (pc = "L187" /\ pc' = "L170" /\ StillRunning(wpid))
        /\ KillResult(proc, pcb[child].pid) = -1)
       => (/\ pcb'[child].mem = "freed"
           /\ child \notin Range(q_toArray(queue')))]_vars

\* C20: failure to arm the timer is fatal.  When setitimer refuses the
\* interval main computed, the run does not go on to wait on the dispatched
\* process, to reap it, or to dispatch another.
C20_TimerFailureFatal ==
    ~TimerValid(QUANT_SECONDS)
    => (/\ pc \notin {"L180", "L181", "sleep", "L185", "L187"}
        /\ Len(dispatchLog) <= 1)

\* C21: when process creation fails after some processes were launched, no
\* launched process is left behind alive (stopped, or on its way to stop
\* itself) once the scheduler has exited.
C21_NoStoppedOrphans ==
    pc = "failed" => \A p \in Procs : proc[p].st \notin {"run", "stop"}

\* main has returned on a configuration error, on an input that did not
\* open, or on a fork that failed.
Fatal == pc \in {"badconfig", "badinput", "failed"}

C23_ExecFailureIsOrdinaryExit ==
    \A p \in execFails :
        /\ Exited(p) => ~InQueue(p)
        /\ ~(child = p /\ exitedAt[p] # 0 /\ exitedAt[p] < Len(dispatchLog))

\* C24: quantum expiry only preempts.  The step of main that finds the
\* dispatched process still running stops it and nothing else: the process
\* is not running afterwards, it keeps what it still has to execute, it is
\* back in the ReadyQueue and no other process is touched.  No process ever
\* ends except by its own exit, the work a process has left never changes
\* while it is not executing, and the resume of a later dispatch leaves it
\* as it was when it was stopped.
C24_ExpiryOnlyPreempts ==
    [][/\ \A p \in Procs :
            /\ (proc'[p].st = "zombie" /\ proc[p].st # "zombie")
                  => (Executing(p) /\ proc[p].need = 1)
            /\ (proc[p].st # "unborn" /\ proc'[p].need # proc[p].need)
                  => (Executing(p) /\ proc'[p].need < proc[p].need)
       /\ (pc = "L187" /\ pc' = "L170" /\ StillRunning(wpid))
             => /\ proc'[child].st # "run"
                /\ proc'[child].need = proc[child].need
                /\ child \in Range(q_toArray(queue'))
                /\ \A q \in Procs \ {child} : proc'[q] = proc[q]
       /\ (pc = "L174" /\ pc' = "L175")
             => /\ proc'[child].need = proc[child].need
                /\ proc'[child].st \notin {"zombie", "reaped"} \/ Exited(child)
      ]_vars

\* A single process that needed three quanta was preempted after its first
\* and, resumed in its second dispatch, executes with two left.
C24_Witness ==
    /\ launched = 1 /\ demand = 3 /\ Len(dispatchLog) = 2
    /\ Executing(1) /\ proc[1].need = 2 /\ pc = "L180"

\* C25: each preemption adds exactly the quantum to the preempted PCB's
\* totalCPUTime (kept in seconds, the quantum being in milliseconds), for
\* every accepted quantum.
C25_CpuTimeGrowsByQuantum ==
    [][(pc = "L187" /\ pc' = "L170" /\ StillRunning(wpid))
       => 1000 * pcb'[child].totalCPUTime
            = 1000 * pcb[child].totalCPUTime + QUANT_SECONDS]_vars

\* C26: whenever the scheduler waits on a dispatched process, the interval
\* it armed the timer with is one setitimer accepts (tv_usec below a
\* million) and is exactly the quantum.
C26_ArmedIntervalIsQuantum ==
    Waiting => /\ TimerValid(QUANT_SECONDS)
               /\ 1000000 * TimerSec(QUANT_SECONDS) + TimerUsec(QUANT_SECONDS)
                    = 1000 * QUANT_SECONDS

\* C27: the expiry that ends a wait belongs to the dispatch that armed it.
\* When the wait loop is left with timeLeft false while no exit has been
\* recorded, a period of the timer has run out during this very wait.
C27_ExpiryBelongsToDispatch ==
    (pc = "L185" /\ ~timeLeft /\ childRunning) => expired

\* C28: the signal handlers only deposit events.  A step of a handler (the
\* one that takes its pending signal) leaves every PCB and the ReadyQueue
\* as they are, and frees nothing; PCBs and queue change only in steps of
\* main, in its launch loop and its dispatch loop.
C28_HandlersOnlyDepositEvents ==
    [][/\ ((sigalrm /\ ~sigalrm') \/ (sigchld /\ ~sigchld'))
             => (pcb' = pcb /\ queue' = queue /\ freeCount' = freeCount)
       /\ (pcb' # pcb \/ queue' # queue)
             => /\ pc \in {"launch", "L170", "L187"}
                /\ sigalrm' = sigalrm /\ sigchld' = sigchld
                /\ UNCHANGED flagVars
      ]_vars

\* Both handlers have run during a dispatch, the exit handler has collected
\* the dispatched process, and its PCB is as it was at its launch, held by
\* main and not in the ReadyQueue.
C28_Witness ==
    /\ pc = "L185" /\ child # NULL
    /\ ~timeLeft /\ ~childRunning /\ proc[child].st = "reaped"
    /\ pcb[child] = [pid |-> child, totalCPUTime |-> 0, running |-> FALSE,
                     finished |-> FALSE, mem |-> "live"]
    /\ ~InQueue(child)

\* C29: when the exit handler has collected the dispatched process before
\* the dispatch loop's own non-blocking reap, that reap returns -1, and the
\* step that follows a reap of -1 finalizes the PCB: it is marked finished
\* and freed, no signal is sent and the ReadyQueue is left alone.
C29_ReapedByHandlerIsFinalized ==
    [][/\ (pc = "L185" /\ pc' = "L187" /\ proc[child].st = "reaped")
             => wpid' = -1
       /\ (pc = "L187" /\ pc' = "L170" /\ wpid = -1)
             => /\ pcb'[child].finished /\ pcb'[child].mem = "freed"
                /\ proc' = proc
                /\ queue' = queue
      ]_vars

\* The reap of the dispatched process, collected once by the handler, has
\* returned -1 and its PCB is about to be finalized.
C29_Witness ==
    /\ pc = "L187" /\ wpid = -1 /\ child # NULL
    /\ proc[child].st = "reaped" /\ reapCount[child] = 1
    /\ pcb[child].mem = "live" /\ ~childRunning

\* C30: the first resume is never lost.  A process the scheduler has sent
\* the continue signal had stopped itself before.
C30_FirstResumeNotLost ==
    \A p \in Procs : Continued(p) => proc[p].raised

\* C31: the structural invariant of ArrayQueue.  After every sequence of
\* enqueue, dequeue, front and clear, growth included: 0 <= count <= size,
\* 0 <= in < size, 0 <= out < size and in = (out + count) mod size.
C31_QueueStructure ==
    pc = "queue" =>
      /\ 0 <= queue.count /\ queue.count <= queue.size
      /\ 0 <= queue.in /\ queue.in < queue.size
      /\ 0 <= queue.out /\ queue.out < queue.size
      /\ queue.in = (queue.out + queue.count) % queue.size

\* The queue has grown once and has then been cleared: it is empty with in
\* and out back at 0, which no sequence of dequeues brings about.
C31_Witness ==
    /\ pc = "queue"
    /\ ret.op = "clear"
    /\ Len(fifo) = QueueCap + 1
    /\ queue.size = 2 * QueueCap
    /\ queue.count = 0 /\ queue.in = 0 /\ queue.out = 0

\* C32: dequeue and front on an empty queue return false and change neither
\* the output element nor the queue; front on a non-empty queue returns
\* true with the oldest element still in the queue, leaves the queue as it
\* is, and the dequeue that follows it returns that same element.
C32_EmptyAndFront ==
    [][pc = "queue" =>
        /\ (ret'.op \in {"front", "dequeue"} /\ queue.count = 0)
              => (~ret'.status /\ child' = child /\ queue' = queue)
        /\ (ret'.op = "front" /\ queue.count > 0)
              => /\ ret'.status
                 /\ child' = fifo[Len(taken) + 1]
                 /\ queue' = queue
        /\ (ret'.op = "dequeue" /\ ret.op = "front" /\ ret.status)
              => (ret'.status /\ child' = child)
      ]_vars

\* front has just returned the oldest element of a queue that has wrapped
\* round its buffer, and that element is not the one enqueued last.
C32_Witness ==
    /\ pc = "queue" /\ ret.op = "front" /\ ret.status
    /\ queue.count >= 2 /\ queue.in <= queue.out
    /\ child = fifo[Len(taken) + 1] /\ child # fifo[Len(fifo)]

\* C33: in uspsv2 no child begins to execute its target program before the
\* parent has created all the children: a child that executes its program,
\* or has exited from it, has been sent the start signal, which the parent
\* sends only once the launch loop and its sleep are over.
C33_NoStartBeforeAllCreated ==
    version = 2 =>
      \A p \in Procs :
        kid[p].st \in {"exec", "done"}
          => /\ pc \in {"start", "stop", "cont", "wait", "returned"}
             /\ pc = "start" => idx >= p

\* The parent, all three children created, has sent the start signal to the
\* first two: the first executes its program, the third still spins.
C33_Witness ==
    /\ version = 2 /\ pc = "start" /\ idx = 2 /\ Len(pids) = 3
    /\ kid[1].st = "exec"
    /\ kid[2].st = "spin" /\ kid[2].usr1
    /\ kid[3].st = "spin" /\ kid[3].not_ready

\* C34: in uspsv2 the start signal reaches a child only after the child has
\* installed its handler, so no child is ended by the signal's default
\* action.
C34_NoChildKilledByStart ==
    version = 2 => \A p \in Procs : kid[p].st # "killed"

\* C35: in uspsv1 and uspsv2 the launcher returns success only after every
\* child it created has ended and been waited for, and the pid of every
\* child created is recorded exactly once.
C35_ReturnsAfterAllEnded ==
    version # 0 =>
      /\ \A p \in Procs :
           Cardinality({i \in 1..Len(pids) : pids[i] = p})
             = IF kid[p].st = "unborn" THEN 0 ELSE 1
      /\ status = <<0>> =>
           /\ pc = "returned"
           /\ \A p \in Procs :
                kid[p].st # "unborn" => (kid[p].st \in {"done", "killed"} /\ kid[p].reaped)
      /\ \A p \in Procs : kid[p].reaped => kid[p].st \in {"done", "killed"}

\* uspsv2 has returned 0 after three children, all of which have run their
\* programs to the end.
C35_Witness ==
    /\ version = 2 /\ pc = "returned" /\ status = <<0>> /\ Len(pids) = 3
    /\ \A p \in 1..3 : kid[p].st = "done" /\ kid[p].reaped

\* C36: add(x) with x not a member returns true, makes x a member and the
\* size one more, whatever bucket x hashes to; add(x) with x a member
\* returns false and leaves members and size as they are.
C36_AddContract ==
    [][(pc = "set" /\ ret'.op = "add") =>
        LET x == ret'.arg IN
        /\ ~s_contains(hs, x)
              => /\ ret'.status
                 /\ s_contains(hs', x)
                 /\ s_size(hs') = s_size(hs) + 1
        /\ s_contains(hs, x)
              => /\ ~ret'.status
                 /\ s_size(hs') = s_size(hs)
                 /\ \A y \in Members : s_contains(hs', y) <=> s_contains(hs, y)
      ]_vars

\* C37: when remove(x) returns true x is no longer a member, the size is
\* one less and every other member is still one; remove(x) with x not a
\* member returns false and leaves the set as it is.
C37_RemoveContract ==
    [][(pc = "set" /\ ret'.op = "remove") =>
        LET x == ret'.arg IN
        /\ ret'.status
              => /\ ~s_contains(hs', x)
                 /\ s_size(hs') = s_size(hs) - 1
                 /\ \A y \in Members \ {x} : s_contains(hs, y) => s_contains(hs', y)
        /\ ~s_contains(hs, x) => (~ret'.status /\ hs' = hs)
      ]_vars

====
